---------------------------- MODULE Spec2Model ----------------------------
(***************************************************************************)
(* Model of synthesis/hts2wav.py (ENUNU): the synthesis pipeline           *)
(* (synthesis), the bit-depth heuristic (estimate_bit_depth,               *)
(* generate_wav_file), the question-path resolution                        *)
(* (set_each_question_path, load_qst) and the artifact emission of         *)
(* hts2wav.                                                                *)
(*                                                                         *)
(* Conventions.                                                            *)
(*  - A Python str is a sequence of one-character strings; a character     *)
(*    that has no TLA+ string escape is written by its code point, as in   *)
(*    "U+000B".                                                            *)
(*  - A sample is an exact rational [n |-> numerator, d |-> denominator],  *)
(*    in lowest terms with d > 0; the IEEE value NaN (0.0 / 0.0) is the    *)
(*    record [n |-> 0, d |-> 0].  The rational stands for the real number  *)
(*    the float approximates.                                              *)
(*  - A numpy array is a record [dtype, data].                             *)
(*  - The predictors, the vocoder, the label library and the question-set  *)
(*    loader are imported packages: a call to one of them is a             *)
(*    nondeterministic choice of its result (or of its failure).           *)
(***************************************************************************)
EXTENDS Integers, Sequences, FiniteSets, TLC

None == "None"

(***************************************************************************)
(* Bounds of the model.                                                    *)
(***************************************************************************)
\* longest raw sample sequence drawn for generate_wav_file
MaxSamples == 2
\* longest timeline drawn for the timing-file emission
MaxLines == 2
\* largest number of binary features a question set declares
MaxBinary == 2
\* tick distance between consecutive label boundaries
Tick == 50

(***************************************************************************)
(* Program constants.                                                      *)
(***************************************************************************)
INT32_THRESHOLD == 8388608
INT16_THRESHOLD == 8
INT16_MAX == 32767
INT32_MAX == 2147483647

(***************************************************************************)
(* Python str operations used by hts2wav.                                  *)
(***************************************************************************)
\* the characters str.split() separates on (those with str.isspace())
Whitespace == {"\t", "\n", "U+000B", "\f", "\r", "U+001C", "U+001D", "U+001E",
               "U+001F", " ", "U+0085", "U+00A0", "U+1680", "U+2000", "U+2001",
               "U+2002", "U+2003", "U+2004", "U+2005", "U+2006", "U+2007",
               "U+2008", "U+2009", "U+200A", "U+2028", "U+2029", "U+202F",
               "U+205F", "U+3000"}

\* the characters str.splitlines() ends a line at
LineBoundaries == {"\n", "\r", "U+000B", "\f", "U+001C", "U+001D", "U+001E",
                   "U+0085", "U+2028", "U+2029"}

Digit(k) == <<"0", "1", "2", "3", "4", "5", "6", "7", "8", "9">>[k + 1]

RECURSIVE NatToStr(_)
NatToStr(k) == IF k < 10 THEN <<Digit(k)>>
               ELSE NatToStr(k \div 10) \o <<Digit(k % 10)>>

\* '{}'.format(k) for an int k
IntToStr(k) == IF k < 0 THEN <<"-">> \o NatToStr(0 - k) ELSE NatToStr(k)

RECURSIVE FindFrom(_, _, _)
FindFrom(s, c, i) == IF i > Len(s) THEN -1
                     ELSE IF s[i] = c THEN i - 1
                     ELSE FindFrom(s, c, i + 1)

\* s.find(c): 0-based index of the first c in s, -1 when there is none
Find(s, c) == FindFrom(s, c, 1)

\* s[lo:hi] with Python's treatment of negative and out-of-range indices
PySlice(s, lo, hi) ==
    LET n  == Len(s)
        l0 == IF lo < 0 THEN lo + n ELSE lo
        h0 == IF hi < 0 THEN hi + n ELSE hi
        l  == IF l0 < 0 THEN 0 ELSE IF l0 > n THEN n ELSE l0
        h  == IF h0 < 0 THEN 0 ELSE IF h0 > n THEN n ELSE h0
    IN IF l >= h THEN <<>> ELSE SubSeq(s, l + 1, h)

RECURSIVE SplitFrom(_, _, _)
SplitFrom(s, i, tok) ==
    IF i > Len(s) THEN (IF tok = <<>> THEN <<>> ELSE <<tok>>)
    ELSE IF s[i] \in Whitespace
         THEN (IF tok = <<>> THEN <<>> ELSE <<tok>>) \o SplitFrom(s, i + 1, <<>>)
         ELSE SplitFrom(s, i + 1, Append(tok, s[i]))

\* s.split(): the maximal runs of non-whitespace characters
Split(s) == SplitFrom(s, 1, <<>>)

RECURSIVE SplitLinesFrom(_, _, _)
SplitLinesFrom(s, i, cur) ==
    IF i > Len(s) THEN (IF cur = <<>> THEN <<>> ELSE <<cur>>)
    ELSE IF s[i] = "\r" /\ i < Len(s) /\ s[i + 1] = "\n"
         THEN <<cur>> \o SplitLinesFrom(s, i + 2, <<>>)
    ELSE IF s[i] \in LineBoundaries
         THEN <<cur>> \o SplitLinesFrom(s, i + 1, <<>>)
         ELSE SplitLinesFrom(s, i + 1, Append(cur, s[i]))

\* s.splitlines(): '\r\n' is one line boundary
SplitLines(s) == SplitLinesFrom(s, 1, <<>>)

StartsWithAt(s, i, old) ==
    /\ i + Len(old) - 1 <= Len(s)
    /\ SubSeq(s, i, i + Len(old) - 1) = old

RECURSIVE ReplaceFrom(_, _, _, _)
ReplaceFrom(s, i, old, new) ==
    IF i > Len(s) THEN <<>>
    ELSE IF StartsWithAt(s, i, old)
         THEN new \o ReplaceFrom(s, i + Len(old), old, new)
         ELSE <<s[i]>> \o ReplaceFrom(s, i + 1, old, new)

\* s.replace(old, new): every non-overlapping occurrence, left to right
Replace(s, old, new) == ReplaceFrom(s, 1, old, new)

(***************************************************************************)
(* Arithmetic on samples.                                                  *)
(***************************************************************************)
Abs(k) == IF k < 0 THEN 0 - k ELSE k

RECURSIVE GCD(_, _)
GCD(a, b) == IF b = 0 THEN a ELSE GCD(b, a % b)

NaN == [n |-> 0, d |-> 0]

\* +inf and -inf are [n |-> 1, d |-> 0] and [n |-> -1, d |-> 0]
IsNaN(x) == x.d = 0 /\ x.n = 0

IsFinite(x) == x.d > 0

Rat(n, d) == LET g == GCD(Abs(n), d) IN [n |-> n \div g, d |-> d \div g]

RatInt(k) == [n |-> k, d |-> 1]

RatAbs(x) == [n |-> Abs(x.n), d |-> x.d]

Inf(sign) == [n |-> sign, d |-> 0]

Sign(x) == IF x.n < 0 THEN -1 ELSE 1

\* x > y as IEEE compares: false when either is NaN
RatGt(x, y) ==
    IF IsNaN(x) \/ IsNaN(y) THEN FALSE
    ELSE IF ~IsFinite(x) THEN x.n > 0 /\ y # x
    ELSE IF ~IsFinite(y) THEN y.n < 0
    ELSE LET g == GCD(x.d, y.d)
         IN x.n * (y.d \div g) > y.n * (x.d \div g)

\* x / y as numpy divides IEEE doubles: no exception; 0/0 and inf/inf are NaN,
\* x/0 and inf/y are infinite, x/inf is 0
RatDiv(x, y) ==
    IF IsNaN(x) \/ IsNaN(y) THEN NaN
    ELSE IF ~IsFinite(x) THEN (IF ~IsFinite(y) THEN NaN ELSE Inf(Sign(x) * Sign(y)))
    ELSE IF ~IsFinite(y) THEN RatInt(0)
    ELSE IF y.n = 0 THEN (IF x.n = 0 THEN NaN ELSE Inf(Sign(x)))
    ELSE LET g1 == GCD(Abs(x.n), Abs(y.n))
             g2 == GCD(x.d, y.d)
             sg == IF y.n < 0 THEN -1 ELSE 1
         IN IF x.n = 0 THEN RatInt(0)
            ELSE [n |-> sg * (x.n \div g1) * (y.d \div g2),
                  d |-> (x.d \div g2) * (Abs(y.n) \div g1)]

RECURSIVE MaxAbsFrom(_, _, _)
MaxAbsFrom(data, i, best) ==
    IF i > Len(data) THEN best
    ELSE MaxAbsFrom(data, i + 1,
                    IF RatGt(RatAbs(data[i]), best) THEN RatAbs(data[i]) ELSE best)

\* np.max(np.abs(wav)) of a non-empty array: a NaN anywhere makes it NaN
MaxAbs(data) ==
    IF \E i \in 1..Len(data) : IsNaN(data[i]) THEN NaN
    ELSE MaxAbsFrom(data, 2, RatAbs(data[1]))

DivAll(data, y) == [i \in 1..Len(data) |-> RatDiv(data[i], y)]


(***************************************************************************)
(* estimate_bit_depth and the steps of generate_wav_file.                  *)
(***************************************************************************)
\* strict comparisons replaced by non-strict ones
estimate_bit_depth_ge(data) ==
    LET max_gain == MaxAbs(data)
    IN IF ~RatGt(RatInt(INT32_THRESHOLD), max_gain) THEN "int32"
       ELSE IF ~RatGt(RatInt(INT16_THRESHOLD), max_gain) THEN "int16"
       ELSE "float"

estimate_bit_depth(data) ==
    LET max_gain == MaxAbs(data)
    IN IF RatGt(max_gain, RatInt(INT32_THRESHOLD)) THEN "int32"
       ELSE IF RatGt(max_gain, RatInt(INT16_THRESHOLD)) THEN "int16"
       ELSE "float"

\* lines 93-102: the division chosen by the estimated bit depth
scale_bit_depth(data) ==
    LET training_data_bit_depth == estimate_bit_depth(data)
    IN IF training_data_bit_depth = "int16" THEN DivAll(data, RatInt(INT16_MAX))
       ELSE IF training_data_bit_depth = "int32" THEN DivAll(data, RatInt(INT32_MAX))
       ELSE data

\* lines 105-106: wav / np.max(np.abs(wav)) when config.gain_normalize
gain_normalize(gain, data) ==
    IF gain THEN DivAll(data, MaxAbs(data)) ELSE data

\* wav.astype(np.float32): the element type becomes float32
astype(arr, t) == [dtype |-> t, data |-> arr.data]

(***************************************************************************)
(* set_each_question_path and load_qst.                                    *)
(***************************************************************************)
Stages == {"timelag", "duration", "acoustic"}

\* the global path always wins
resolve_question_path_global(own, global) == global

\* lines 119-122, for one stage
resolve_question_path(own, global) == IF own = None THEN global ELSE own

set_each_question_path(c) ==
    [c EXCEPT !.timelag  = [question_path |-> resolve_question_path(@.question_path, c.question_path)],
              !.duration = [question_path |-> resolve_question_path(@.question_path, c.question_path)],
              !.acoustic = [question_path |-> resolve_question_path(@.question_path, c.question_path)]]

NoQst == [loaded |-> FALSE, len_binary |-> 0, pitch_indices |-> <<>>, pitch_idx |-> 0]

\* np.arange(lo, hi)
arange(lo, hi) == [i \in 1..(hi - lo) |-> lo + i - 1]

\* pitch_idx taken as the first pitch index
load_qst_first(len_binary) ==
    [loaded |-> TRUE, len_binary |-> len_binary,
     pitch_indices |-> arange(len_binary, len_binary + 3),
     pitch_idx |-> len_binary]

\* lines 132-134, for a question set with len_binary binary features
load_qst(len_binary) ==
    [loaded |-> TRUE, len_binary |-> len_binary,
     pitch_indices |-> arange(len_binary, len_binary + 3),
     pitch_idx |-> len_binary + 1]

(***************************************************************************)
(* The label timeline and the timing-file text.                            *)
(***************************************************************************)
\* the timeline the label library returns for a file with these contexts
Timeline(ctxs) ==
    [i \in 1..Len(ctxs) |->
        [start |-> (i - 1) * Tick, end |-> i * Tick, context |-> ctxs[i]]]

\* the timeline the duration post-processor builds from lag and durations
postprocess_duration(labels, dur, lag) ==
    [i \in 1..Len(labels) |->
        [start |-> lag + (i - 1) * dur, end |-> lag + i * dur,
         context |-> labels[i].context]]

RECURSIVE StrLabelsFrom(_, _)
StrLabelsFrom(tl, i) ==
    IF i > Len(tl) THEN <<>>
    ELSE IntToStr(tl[i].start) \o <<" ">> \o IntToStr(tl[i].end) \o <<" ">>
         \o tl[i].context \o <<"\n">> \o StrLabelsFrom(tl, i + 1)

\* str(duration_modified_labels): one 'start end context' line per entry
StrLabels(tl) == StrLabelsFrom(tl, 1)

\* t_start, t_end, context = line.split() succeeds
Unpacks(line) == Len(Split(line)) = 3

\* the slice end one past the first '+'
core_phoneme_off(context) ==
    PySlice(context, Find(context, "-") + 1, Find(context, "+") + 1)

\* line 304
core_phoneme(context) ==
    PySlice(context, Find(context, "-") + 1, Find(context, "+"))

\* lines 303-305, for a line that unpacks
timing_line(line) ==
    LET tok == Split(line)
    IN tok[1] \o <<" ">> \o tok[2] \o <<" ">> \o core_phoneme(tok[3]) \o <<"\n">>

RECURSIVE TimingTextFrom(_, _)
TimingTextFrom(lines, i) ==
    IF i > Len(lines) THEN <<>>
    ELSE timing_line(lines[i]) \o TimingTextFrom(lines, i + 1)

\* the string s after the loop of lines 302-305, when every line unpacks
TimingText(lines) == TimingTextFrom(lines, 1)

AllUnpack(lines) == \A i \in 1..Len(lines) : Unpacks(lines[i])

(***************************************************************************)
(* Output paths.                                                           *)
(***************************************************************************)
DotWav == <<".", "w", "a", "v">>

\* the extension appended to the path instead of replacing '.wav'
aux_path_append(p, ext) == p \o ext

\* out_wav_path.replace('.wav', ext)
aux_path(p, ext) == Replace(p, DotWav, ext)

TimingExt == <<"_", "t", "i", "m", "i", "n", "g", ".", "l", "a", "b">>
F0Ext == <<".", "f", "0">>
MgcExt == <<".", "m", "g", "c">>
BapExt == <<".", "b", "a", "p">>


(***************************************************************************)
(* Inputs.                                                                 *)
(***************************************************************************)
QuestionPaths == [global |-> "g.hed", timelag |-> "t.hed",
                  duration |-> "d.hed", acoustic |-> "a.hed"]

\* the run configurations composed by main (line 341)
Configs ==
    { [ground_truth_duration |-> gt, gain_normalize |-> gn, question_path |-> q,
       timelag  |-> [question_path |-> qt],
       duration |-> [question_path |-> qd],
       acoustic |-> [question_path |-> qa]] :
         gt \in BOOLEAN, gn \in BOOLEAN,
         q  \in {None, QuestionPaths.global},
         qt \in {None, QuestionPaths.timelag},
         qd \in {None, QuestionPaths.duration},
         qa \in {None, QuestionPaths.acoustic} }

\* 'o.wav', 'o.WAV', 'x.wavs.wav'
OutPaths == { <<"o", ".", "w", "a", "v">>,
              <<"o", ".", "W", "A", "V">>,
              <<"x", ".", "w", "a", "v", "s", ".", "w", "a", "v">> }

\* phonetic contexts: 'a^b-c+d=e', 'x-y-z+w+v', 'sil', 'p-q', 'k+m', 'u+v-w',
\* 'a b' (two tokens), '' (no token), 'a\rb' (a line break) and
\* 'c\r1 2 d-e+f' (a line break followed by a line of three tokens)
Contexts == { <<"a", "^", "b", "-", "c", "+", "d", "=", "e">>,
              <<"x", "-", "y", "-", "z", "+", "w", "+", "v">>,
              <<"s", "i", "l">>,
              <<"p", "-", "q">>,
              <<"k", "+", "m">>,
              <<"u", "+", "v", "-", "w">>,
              <<"a", " ", "b">>,
              <<>>,
              <<"a", "\r", "b">>,
              <<"c", "\r", "1", " ", "2", " ", "d", "-", "e", "+", "f">> }

SeqsUpTo(S, k) == UNION { [1..m -> S] : m \in 0..k }

\* the context sequences of the label files of the pipeline runs
LabelFiles == { <<>>,
                << <<"a", "^", "b", "-", "c", "+", "d", "=", "e">>,
                   <<"x", "-", "y", "-", "z", "+", "w", "+", "v">> >>,
                << <<"a", "^", "b", "-", "c", "+", "d", "=", "e">>,
                   <<"a", " ", "b">> >>,
                << <<"s", "i", "l">> >>,
                << <<"a", "\r", "b">> >> }

\* raw sample values: 0, 1/2, 8, 17/2, 9, -9, 16000, 2^23, 2^23 + 1, -(2^23 + 1),
\* nan, inf, -inf
Samples == { RatInt(0), Rat(1, 2), RatInt(INT16_THRESHOLD), Rat(17, 2),
             RatInt(INT16_THRESHOLD + 1), RatInt(0 - (INT16_THRESHOLD + 1)),
             RatInt(16000), RatInt(INT32_THRESHOLD),
             RatInt(INT32_THRESHOLD + 1), RatInt(0 - (INT32_THRESHOLD + 1)),
             NaN, Inf(1), Inf(-1) }

IsFraction(x) == x.d > 1

IsInt32Range(x) == RatGt(RatAbs(x), RatInt(INT32_THRESHOLD))

\* every raw sample sequence of at most MaxSamples samples, but for those that
\* hold both a fraction and a sample above 2^23, whose quotient by 2147483647
\* has a denominator beyond TLC's 32-bit integers
RawWavs ==
    { w \in SeqsUpTo(Samples, MaxSamples) :
        ~ ( (\E i \in 1..Len(w) : IsFraction(w[i]))
            /\ (\E i \in 1..Len(w) : IsInt32Range(w[i])) ) }

\* the raw sample sequences the vocoder returns in the pipeline runs
VocoderWavs == { <<>>,
                 <<RatInt(0), RatInt(0)>>,
                 <<RatInt(16000), RatInt(-16000)>>,
                 <<RatInt(INT32_THRESHOLD + 1)>>,
                 <<Rat(1, 2), RatInt(0)>>,
                 <<RatInt(INT16_THRESHOLD + 1), NaN>> }

Lags == {0, Tick}
Durations == {Tick, 2 * Tick}

NoArray == [dtype |-> "none", data |-> <<>>]
Float64(data) == [dtype |-> "float64", data |-> data]

(***************************************************************************)
(* State.                                                                  *)
(***************************************************************************)
VARIABLES
    pc,                        \* position in hts2wav / synthesis / generate_wav_file
    config,                    \* the DictConfig (mutated by set_each_question_path)
    config0,                   \* the configuration as composed, before the run
    out_wav_path,
    labels,                    \* synthesis: the loaded timeline
    qst,                       \* synthesis: load_qst results, per stage
    lag,                       \* synthesis: time-lag prediction
    durations,                 \* synthesis: duration prediction
    duration_modified_labels,
    acoustic_features,
    f0, sp, bap,
    generated_waveform,        \* the raw sample sequence (hts2wav's wav)
    wav,                       \* generate_wav_file's wav
    fs,                        \* the files written: path -> content
    calls                      \* the calls made so far, in order

vars == <<pc, config, config0, out_wav_path, labels, qst, lag, durations,
          duration_modified_labels, acoustic_features, f0, sp, bap,
          generated_waveform, wav, fs, calls>>

NoFiles == [p \in {} |-> NoArray]

Call(fn, ok, tl) == [fn |-> fn, ok |-> ok, labels |-> tl]

InitLocals ==
    /\ labels = <<>>
    /\ qst = [typ \in Stages |-> NoQst]
    /\ lag = 0
    /\ durations = 0
    /\ duration_modified_labels = <<>>
    /\ acoustic_features = NoArray
    /\ f0 = NoArray /\ sp = NoArray /\ bap = NoArray
    /\ generated_waveform = NoArray
    /\ wav = NoArray
    /\ fs = NoFiles
    /\ calls = <<>>

\* hts2wav at line 292, about to call synthesis
Init ==
    /\ pc = "load_labels"
    /\ config0 \in Configs
    /\ config = config0
    /\ out_wav_path \in OutPaths
    /\ InitLocals


(***************************************************************************)
(* Steps shared by the actions.                                            *)
(***************************************************************************)
\* the failed call is made again
RaiseRetry(fn, tl) ==
    /\ pc' = pc
    /\ calls' = Append(calls, Call(fn, FALSE, tl))

\* an exception propagates out of hts2wav: nothing after it runs
Raise(fn, tl) ==
    /\ pc' = "failed"
    /\ calls' = Append(calls, Call(fn, FALSE, tl))

Return(fn, tl, next) ==
    /\ pc' = next
    /\ calls' = Append(calls, Call(fn, TRUE, tl))

\* the branch is taken the wrong way round
UseProvidedAlignmentNever(c) == ~c.ground_truth_duration

\* line 150
UseProvidedAlignment(c) == c.ground_truth_duration

\* hts.load_question_set opens the path: a path of None cannot be opened
\* (a path that is set may still name a missing or malformed file)
QuestionSetOpens(path) == path # None

\* a failed write is ignored and the run goes on
AfterWriteContinue(ok, next) == next

\* lines 299-314 run in sequence; an exception ends the run
AfterWrite(ok, next) == IF ok THEN next ELSE "failed"

\* a line that does not unpack is skipped
timing_file_skip(lines) ==
    LET good == SelectSeq(lines, Unpacks)
    IN [parsed |-> TRUE, text |-> TimingText(good)]

\* lines 300-305: the text built from the lines, unless a line fails to unpack
timing_file(lines) ==
    IF AllUnpack(lines) THEN [parsed |-> TRUE, text |-> TimingText(lines)]
    ELSE [parsed |-> FALSE, text |-> <<>>]

File(kind, dtype, data) == [kind |-> kind, dtype |-> dtype, data |-> data]

IoOutcomes == {"ok", "open_fails", "write_fails"}

\* what an opened (truncated) file may hold after the write of data: all of
\* it, or, when the write fails, any prefix of it
Written(io, data) ==
    IF io = "write_fails" THEN { SubSeq(data, 1, k) : k \in 0..Len(data) }
    ELSE {data}

(***************************************************************************)
(* synthesis (lines 137-218).                                              *)
(***************************************************************************)
\* line 145: labels = hts.load(label_path).round_()
LoadLabels ==
    /\ pc = "load_labels"
    /\ \E ok \in BOOLEAN, ctxs \in LabelFiles :
         IF ok
         THEN /\ labels' = Timeline(ctxs)
              /\ Return("load_labels", Timeline(ctxs), "set_each_question_path")
         ELSE /\ Raise("load_labels", <<>>)
              /\ UNCHANGED labels
    /\ UNCHANGED <<config, config0, out_wav_path, qst, lag, durations,
                   duration_modified_labels, acoustic_features, f0, sp, bap,
                   generated_waveform, wav, fs>>

\* lines 147-152: resolve the question paths, then take the alignment branch
SetEachQuestionPath ==
    /\ pc = "set_each_question_path"
    /\ config' = set_each_question_path(config)
    /\ IF UseProvidedAlignment(config)
       THEN /\ duration_modified_labels' = labels
            /\ pc' = "load_qst_acoustic"
       ELSE /\ UNCHANGED duration_modified_labels
            /\ pc' = "load_qst_timelag"
    /\ UNCHANGED <<config0, out_wav_path, labels, qst, lag, durations,
                   acoustic_features, f0, sp, bap, generated_waveform, wav,
                   fs, calls>>

\* load_qst(config[typ].question_path), lines 125-134
LoadQst(typ, at, next) ==
    /\ pc = at
    /\ \E ok \in BOOLEAN, len_binary \in 0..MaxBinary :
         IF ok /\ QuestionSetOpens(config[typ].question_path)
         THEN /\ qst' = [qst EXCEPT ![typ] = load_qst(len_binary)]
              /\ Return(at, <<>>, next)
         ELSE /\ Raise(at, <<>>)
              /\ UNCHANGED qst
    /\ UNCHANGED <<config, config0, out_wav_path, labels, lag, durations,
                   duration_modified_labels, acoustic_features, f0, sp, bap,
                   generated_waveform, wav, fs>>

\* lines 155-156
LoadQstTimelag == LoadQst("timelag", "load_qst_timelag", "predict_timelag")

\* lines 157-167
PredictTimelag ==
    /\ pc = "predict_timelag"
    /\ \E ok \in BOOLEAN, l \in Lags :
         IF ok
         THEN /\ lag' = l
              /\ Return("predict_timelag", labels, "load_qst_duration")
         ELSE /\ Raise("predict_timelag", labels)
              /\ UNCHANGED lag
    /\ UNCHANGED <<config, config0, out_wav_path, labels, qst, durations,
                   duration_modified_labels, acoustic_features, f0, sp, bap,
                   generated_waveform, wav, fs>>

\* lines 170-171
LoadQstDuration == LoadQst("duration", "load_qst_duration", "predict_duration")

\* lines 172-182
PredictDuration ==
    /\ pc = "predict_duration"
    /\ \E ok \in BOOLEAN, d \in Durations :
         IF ok
         THEN /\ durations' = d
              /\ Return("predict_duration", labels, "postprocess_duration")
         ELSE /\ Raise("predict_duration", labels)
              /\ UNCHANGED durations
    /\ UNCHANGED <<config, config0, out_wav_path, labels, qst, lag,
                   duration_modified_labels, acoustic_features, f0, sp, bap,
                   generated_waveform, wav, fs>>

\* line 184
PostprocessDuration ==
    /\ pc = "postprocess_duration"
    /\ \E ok \in BOOLEAN :
         IF ok
         THEN /\ duration_modified_labels' = postprocess_duration(labels, durations, lag)
              /\ Return("postprocess_duration", labels, "load_qst_acoustic")
         ELSE /\ Raise("postprocess_duration", labels)
              /\ UNCHANGED duration_modified_labels
    /\ UNCHANGED <<config, config0, out_wav_path, labels, qst, lag, durations,
                   acoustic_features, f0, sp, bap, generated_waveform, wav, fs>>

\* lines 186-187
LoadQstAcoustic == LoadQst("acoustic", "load_qst_acoustic", "predict_acoustic")

\* lines 189-199: the features are those of the timeline passed
PredictAcoustic ==
    /\ pc = "predict_acoustic"
    /\ \E ok \in BOOLEAN :
         IF ok
         THEN /\ acoustic_features' = Float64(duration_modified_labels)
              /\ Return("predict_acoustic", duration_modified_labels, "gen_waveform")
         ELSE /\ Raise("predict_acoustic", duration_modified_labels)
              /\ UNCHANGED acoustic_features
    /\ UNCHANGED <<config, config0, out_wav_path, labels, qst, lag, durations,
                   duration_modified_labels, f0, sp, bap, generated_waveform,
                   wav, fs>>

\* lines 202-218: the vocoder call and the return to hts2wav (line 292);
\* the locals of synthesis that are not returned go out of scope
GenWaveform ==
    /\ pc = "gen_waveform"
    /\ \E ok \in BOOLEAN, w \in VocoderWavs :
         IF ok
         THEN /\ f0' = Float64(<<1>>)
              /\ sp' = Float64(<<2>>)
              /\ bap' = Float64(<<3>>)
              /\ generated_waveform' = Float64(w)
              /\ labels' = <<>>
              /\ qst' = [typ \in Stages |-> NoQst]
              /\ lag' = 0
              /\ durations' = 0
              /\ acoustic_features' = NoArray
              /\ Return("gen_waveform", duration_modified_labels, "write_timing")
         ELSE /\ Raise("gen_waveform", duration_modified_labels)
              /\ UNCHANGED <<f0, sp, bap, generated_waveform, labels, qst, lag,
                             durations, acoustic_features>>
    /\ UNCHANGED <<config, config0, out_wav_path, duration_modified_labels,
                   wav, fs>>

(***************************************************************************)
(* hts2wav, lines 298-314: the intermediate files.                         *)
(***************************************************************************)
\* lines 299-306
WriteTiming ==
    /\ pc = "write_timing"
    /\ \E io \in IoOutcomes :
         LET path == aux_path(out_wav_path, TimingExt)
             res  == timing_file(SplitLines(StrLabels(duration_modified_labels)))
             ok   == io = "ok" /\ res.parsed
         IN /\ \E content \in Written(io, res.text) :
                 fs' = IF io = "open_fails" THEN fs
                       ELSE (path :> File("timing", "text", content)) @@ fs
            /\ pc' = AfterWrite(ok, "write_f0")
            /\ calls' = Append(calls, Call("write_timing", ok, duration_modified_labels))
    /\ UNCHANGED <<config, config0, out_wav_path, labels, qst, lag, durations,
                   duration_modified_labels, acoustic_features, f0, sp, bap,
                   generated_waveform, wav>>

\* with open(out_wav_path.replace('.wav', ext), 'wb') as f: arr.astype(np.float64).tofile(f)
WriteBinary(at, kind, ext, arr, next) ==
    /\ pc = at
    /\ \E io \in IoOutcomes :
         LET path == aux_path(out_wav_path, ext)
             ok   == io = "ok"
         IN /\ \E content \in Written(io, astype(arr, "float64").data) :
                 fs' = IF io = "open_fails" THEN fs
                       ELSE (path :> File(kind, "float64", content)) @@ fs
            /\ pc' = AfterWrite(ok, next)
            /\ calls' = Append(calls, Call(at, ok, <<>>))
    /\ UNCHANGED <<config, config0, out_wav_path, labels, qst, lag, durations,
                   duration_modified_labels, acoustic_features, f0, sp, bap,
                   generated_waveform, wav>>

\* lines 307-308
WriteF0 == WriteBinary("write_f0", "f0", F0Ext, f0, "write_mgc")

\* lines 309-310
WriteMgc == WriteBinary("write_mgc", "mgc", MgcExt, sp, "write_bap")

\* lines 311-312
WriteBap == WriteBinary("write_bap", "bap", BapExt, bap, "generate_wav_file")

(***************************************************************************)
(* generate_wav_file (lines 84-110), called at line 314.                   *)
(***************************************************************************)
\* lines 89-102: np.max of an empty array raises
ScaleBitDepth ==
    /\ pc = "generate_wav_file"
    /\ IF Len(generated_waveform.data) = 0
       THEN /\ Raise("bit_depth", <<>>)
            /\ UNCHANGED wav
       ELSE /\ wav' = Float64(scale_bit_depth(generated_waveform.data))
            /\ Return("bit_depth", <<>>, "gain_normalize")
    /\ UNCHANGED <<config, config0, out_wav_path, labels, qst, lag, durations,
                   duration_modified_labels, acoustic_features, f0, sp, bap,
                   generated_waveform, fs>>

\* lines 105-106
GainNormalize ==
    /\ pc = "gain_normalize"
    /\ wav' = Float64(gain_normalize(config.gain_normalize, wav.data))
    /\ pc' = "write_wav"
    /\ UNCHANGED <<config, config0, out_wav_path, labels, qst, lag, durations,
                   duration_modified_labels, acoustic_features, f0, sp, bap,
                   generated_waveform, fs, calls>>

\* lines 109-110
WriteWav ==
    /\ pc = "write_wav"
    /\ wav' = astype(wav, "float32")
    /\ \E io \in IoOutcomes :
         LET ok == io = "ok"
         IN /\ \E content \in Written(io, wav'.data) :
                 fs' = IF io = "open_fails" THEN fs
                       ELSE (out_wav_path :> File("wav", "float32", content)) @@ fs
            /\ pc' = AfterWrite(ok, "done")
            /\ calls' = Append(calls, Call("write_wav", ok, <<>>))
    /\ UNCHANGED <<config, config0, out_wav_path, labels, qst, lag, durations,
                   duration_modified_labels, acoustic_features, f0, sp, bap,
                   generated_waveform>>

(***************************************************************************)
(* Specifications.                                                         *)
(***************************************************************************)
Next ==
    \/ LoadLabels
    \/ SetEachQuestionPath
    \/ LoadQstTimelag
    \/ PredictTimelag
    \/ LoadQstDuration
    \/ PredictDuration
    \/ PostprocessDuration
    \/ LoadQstAcoustic
    \/ PredictAcoustic
    \/ GenWaveform
    \/ WriteTiming
    \/ WriteF0
    \/ WriteMgc
    \/ WriteBap
    \/ ScaleBitDepth
    \/ GainNormalize
    \/ WriteWav

\* a run of hts2wav from the call of synthesis on
Spec == Init /\ [][Next]_vars

\* generate_wav_file applied to every raw sample sequence within the bounds
InitWav ==
    /\ pc = "generate_wav_file"
    /\ config0 \in { c \in Configs : /\ c.ground_truth_duration
                                     /\ c.question_path = QuestionPaths.global
                                     /\ c.timelag.question_path = None
                                     /\ c.duration.question_path = None
                                     /\ c.acoustic.question_path = None }
    /\ config = config0
    /\ out_wav_path = <<"o", ".", "w", "a", "v">>
    /\ labels = <<>>
    /\ qst = [typ \in Stages |-> NoQst]
    /\ lag = 0
    /\ durations = 0
    /\ duration_modified_labels = <<>>
    /\ acoustic_features = NoArray
    /\ f0 = NoArray /\ sp = NoArray /\ bap = NoArray
    /\ generated_waveform \in { Float64(w) : w \in RawWavs }
    /\ wav = NoArray
    /\ fs = NoFiles
    /\ calls = <<>>

NextWav == ScaleBitDepth \/ GainNormalize \/ WriteWav

SpecWav == InitWav /\ [][NextWav]_vars

\* the timing-file emission applied to every timeline within the bounds
InitTiming ==
    /\ pc = "write_timing"
    /\ config0 \in { c \in Configs : /\ c.ground_truth_duration
                                     /\ ~c.gain_normalize
                                     /\ c.question_path = QuestionPaths.global
                                     /\ c.timelag.question_path = None
                                     /\ c.duration.question_path = None
                                     /\ c.acoustic.question_path = None }
    /\ config = config0
    /\ out_wav_path \in OutPaths
    /\ labels = <<>>
    /\ qst = [typ \in Stages |-> NoQst]
    /\ lag = 0
    /\ durations = 0
    /\ duration_modified_labels \in { Timeline(c) : c \in SeqsUpTo(Contexts, MaxLines) }
    /\ acoustic_features = NoArray
    /\ f0 = NoArray /\ sp = NoArray /\ bap = NoArray
    /\ generated_waveform = NoArray
    /\ wav = NoArray
    /\ fs = NoFiles
    /\ calls = <<>>

NextTiming == WriteTiming

SpecTiming == InitTiming /\ [][NextTiming]_vars


(***************************************************************************)
(* Notions the properties are stated with.                                 *)
(***************************************************************************)
Last(q) == q[Len(q)]

Called(fn) == \E i \in 1..Len(calls) : calls[i].fn = fn

Succeeded(fn) == \E i \in 1..Len(calls) : calls[i].fn = fn /\ calls[i].ok

\* the largest |sample| of a non-empty sequence
LargestAbs(data) ==
    CHOOSE x \in { RatAbs(data[i]) : i \in 1..Len(data) } :
        \A i \in 1..Len(data) : ~RatGt(RatAbs(data[i]), x)

\* the quotient of a sample by a positive integer (an infinite one stays so)
Quotient(x, k) == IF x.d = 0 THEN x ELSE Rat(x.n, x.d * k)

NoNaN(data) == \A i \in 1..Len(data) : data[i] # NaN

AllZero(data) == \A i \in 1..Len(data) : data[i] = RatInt(0)

\* the number of whitespace-separated tokens of a line
TokenCount(line) ==
    Cardinality({ i \in 1..Len(line) :
                    /\ line[i] \notin Whitespace
                    /\ (i = 1 \/ line[i - 1] \in Whitespace) })

EntryLine(e) == IntToStr(e.start) \o <<" ">> \o IntToStr(e.end) \o <<" ">> \o e.context

\* some line of the timeline's text has not exactly three tokens
Malformed(tl) ==
    LET lines == SplitLines(StrLabels(tl))
    IN \E i \in 1..Len(lines) : TokenCount(lines[i]) # 3

\* a context that is one token: not empty, no whitespace
IsToken(s) == s # <<>> /\ \A i \in 1..Len(s) : s[i] \notin Whitespace

Occurs(c, s) == \E i \in 1..Len(s) : s[i] = c

FirstPos(c, s) == CHOOSE i \in 1..Len(s) : s[i] = c /\ \A j \in 1..(i - 1) : s[j] # c

\* the characters strictly between the first '-' and the first '+'
Between(s) == SubSeq(s, FirstPos("-", s) + 1, FirstPos("+", s) - 1)

Delimited(s) == Occurs("-", s) /\ Occurs("+", s)

TimingPath == aux_path(out_wav_path, TimingExt)

TimingWritten == calls # <<>> /\ Last(calls) = Call("write_timing", TRUE, duration_modified_labels)

TimingFileLines == SplitLines(fs[TimingPath].data)

\* the path without its extension: up to the last '.'
Stem(p) ==
    IF Occurs(".", p)
    THEN SubSeq(p, 1, (CHOOSE i \in 1..Len(p) :
                          p[i] = "." /\ \A j \in (i + 1)..Len(p) : p[j] # ".") - 1)
    ELSE p

\* the question path a stage resolves to, from the configuration as composed
Resolvable(typ) ==
    IF config0[typ].question_path # None THEN config0[typ].question_path
    ELSE config0.question_path

StageFns == {"load_labels", "predict_timelag", "predict_duration",
             "postprocess_duration", "predict_acoustic", "gen_waveform",
             "bit_depth", "write_timing", "write_f0", "write_mgc", "write_bap",
             "write_wav"}

IsStage(c) == c.fn \in StageFns

StagesRun == LET q == SelectSeq(calls, IsStage) IN [i \in 1..Len(q) |-> q[i].fn]

TimingStages ==
    IF config0.ground_truth_duration THEN <<>>
    ELSE <<"predict_timelag", "predict_duration", "postprocess_duration">>

IsPrefix(p, q) == Len(p) <= Len(q) /\ p = SubSeq(q, 1, Len(p))

FailureIsLast == \A i \in 1..(Len(calls) - 1) : calls[i].ok

WriteOrder == <<aux_path(out_wav_path, TimingExt), aux_path(out_wav_path, F0Ext),
                aux_path(out_wav_path, MgcExt), aux_path(out_wav_path, BapExt),
                out_wav_path>>

(***************************************************************************)
(* Properties.                                                             *)
(***************************************************************************)

\* C1: after the bit-depth step of generate_wav_file, with m the largest
\* |sample| of the raw sequence (one that holds no NaN, so that m is a
\* number), every sample is the raw sample divided by 2147483647 when
\* m > 8388608, divided by 32767 when 8 < m <= 8388608, and the raw sample
\* itself when m <= 8.
C1_BitDepthStep ==
    (pc = "gain_normalize" /\ NoNaN(generated_waveform.data)) =>
        LET raw == generated_waveform.data
            m   == LargestAbs(raw)
        IN /\ Len(wav.data) = Len(raw)
           /\ \A i \in 1..Len(raw) :
                wav.data[i] =
                    IF m.n > 8388608 * m.d THEN Quotient(raw[i], 2147483647)
                    ELSE IF m.n > 8 * m.d THEN Quotient(raw[i], 32767)
                    ELSE raw[i]

\* C1 witness: the bit-depth step has run on a sequence whose largest |sample|
\* is exactly 8388608 and that holds a second, different sample.
C1_Witness ==
    /\ pc = "gain_normalize"
    /\ Len(generated_waveform.data) = 2
    /\ LargestAbs(generated_waveform.data) = RatInt(8388608)
    /\ generated_waveform.data[2] = RatInt(-9)
    /\ wav.data[2] = Rat(-9, 32767)

\* C2: with gain_normalize, the written samples have largest |sample| 1,
\* except that an all-zero signal is written as all zeros.
C2_GainNormalized ==
    (pc = "done" /\ config.gain_normalize) =>
        LET written == fs[out_wav_path].data
        IN IF AllZero(generated_waveform.data)
           THEN AllZero(written)
           ELSE /\ \A i \in 1..Len(written) : IsFinite(written[i])
                /\ LargestAbs(written) = RatInt(1)

\* C3: with ground_truth_duration, the timeline synthesis returns is the one
\* it loaded, the time-lag and duration predictors, the duration
\* post-processor and their question-set loads are never called, and the
\* acoustic predictor and the waveform generator are passed the loaded timeline.
C3_GroundTruthPassThrough ==
    config0.ground_truth_duration =>
        /\ \A i \in 1..Len(calls) :
              /\ calls[i].fn \notin {"load_qst_timelag", "predict_timelag",
                                     "load_qst_duration", "predict_duration",
                                     "postprocess_duration"}
              /\ calls[i].fn \in {"predict_acoustic", "gen_waveform"}
                    => calls[i].labels = calls[1].labels
        /\ Succeeded("gen_waveform") => duration_modified_labels = calls[1].labels

\* C3 witness: a ground-truth run has returned from synthesis with a timeline
\* of two entries.
C3_Witness ==
    /\ config0.ground_truth_duration
    /\ pc = "write_timing"
    /\ Len(duration_modified_labels) = 2
    /\ Succeeded("predict_acoustic")

\* C4: when a line of the duration-corrected timeline has not exactly three
\* tokens, the timing-file emission fails the run, and no .f0, .mgc, .bap or
\* audio file is written.
C4_MalformedLineIsFatal ==
    (Called("write_timing") /\ Malformed(duration_modified_labels)) =>
        /\ pc = "failed"
        /\ Last(calls).fn = "write_timing"
        /\ ~Last(calls).ok
        /\ \A p \in DOMAIN fs : fs[p].kind = "timing"

\* C4 witness: the emission has failed on a timeline whose second line has
\* four tokens, after the timing file was opened.
C4_Witness ==
    /\ pc = "failed"
    /\ Called("write_timing")
    /\ Len(duration_modified_labels) = 2
    /\ TokenCount(EntryLine(duration_modified_labels[2])) = 4
    /\ TimingPath \in DOMAIN fs

\* C5: a successful run leaves the audio file at out_wav_path and the
\* auxiliary files at <stem>_timing.lab, <stem>.f0, <stem>.mgc, <stem>.bap,
\* five different paths.
C5_AuxiliaryPaths ==
    pc = "done" =>
        LET stem == Stem(out_wav_path)
            aux  == [timing |-> stem \o TimingExt, f0 |-> stem \o F0Ext,
                     mgc |-> stem \o MgcExt, bap |-> stem \o BapExt]
        IN /\ out_wav_path \in DOMAIN fs
           /\ fs[out_wav_path].kind = "wav"
           /\ \A k \in DOMAIN aux :
                /\ aux[k] \in DOMAIN fs
                /\ fs[aux[k]].kind = k
           /\ Cardinality(DOMAIN fs) = 5

\* C6 as stated: every line of the timing file is 'start end core', core being
\* the characters strictly between the first '-' and the first '+' of the
\* entry's context, one line per entry in timeline order.
C6_CoreOfEveryLine ==
    TimingWritten =>
        /\ Len(TimingFileLines) = Len(duration_modified_labels)
        /\ \A i \in 1..Len(duration_modified_labels) :
             LET e == duration_modified_labels[i]
             IN /\ Delimited(e.context)
                /\ TimingFileLines[i] = IntToStr(e.start) \o <<" ">> \o IntToStr(e.end)
                                          \o <<" ">> \o Between(e.context)

\* C6 amended: for a timeline whose contexts are single tokens, the timing
\* file has one line per entry in timeline order, each beginning 'start end ';
\* for an entry whose context holds both a '-' and a '+', the line is
\* 'start end core', core being the characters strictly between the first '-'
\* and the first '+'.
C6_CoreOfDelimitedLines ==
    (/\ TimingWritten
     /\ \A i \in 1..Len(duration_modified_labels) :
           IsToken(duration_modified_labels[i].context)) =>
        /\ Len(TimingFileLines) = Len(duration_modified_labels)
        /\ \A i \in 1..Len(duration_modified_labels) :
             LET e    == duration_modified_labels[i]
                 head == IntToStr(e.start) \o <<" ">> \o IntToStr(e.end) \o <<" ">>
             IN /\ IsPrefix(head, TimingFileLines[i])
                /\ Delimited(e.context) => TimingFileLines[i] = head \o Between(e.context)

\* C6 witness: the timing file of the timeline '0 50 a^b-c+d=e',
\* '50 100 x-y-z+w+v' has been written.
C6_Witness ==
    /\ TimingWritten
    /\ Len(duration_modified_labels) = 2
    /\ duration_modified_labels[1].context = <<"a", "^", "b", "-", "c", "+", "d", "=", "e">>
    /\ duration_modified_labels[2].context = <<"x", "-", "y", "-", "z", "+", "w", "+", "v">>
    /\ TimingFileLines[1] = <<"0", " ", "5", "0", " ", "c">>

\* C7: without ground_truth_duration, a run whose time-lag or duration stage
\* resolves to no question path fails when it loads that stage's question set,
\* before the stage's predictor is called, and never reaches the acoustic
\* stage; each stage's path is its own question_path when set and the global
\* question_path otherwise.
C7_QuestionPathResolution ==
    /\ [](/\ (~config0.ground_truth_duration /\ Resolvable("timelag") = None) =>
                /\ pc \in {"load_labels", "set_each_question_path",
                           "load_qst_timelag", "failed"}
                /\ ~Called("predict_timelag")
          /\ (~config0.ground_truth_duration /\ Resolvable("duration") = None) =>
                /\ pc \in {"load_labels", "set_each_question_path", "load_qst_timelag",
                           "predict_timelag", "load_qst_duration", "failed"}
                /\ ~Called("predict_duration")
          /\ (Succeeded("load_labels") /\ pc # "set_each_question_path") =>
                \A typ \in Stages : config[typ].question_path = Resolvable(typ))
    /\ [][\A typ \in {"timelag", "duration"} :
            (pc = "load_qst_" \o typ /\ Resolvable(typ) = None) => pc' = "failed"]_vars

\* C7 witness: the time-lag stage used its own path, and the run failed
\* loading the duration question set, for which no path resolves.
C7_Witness ==
    /\ ~config0.ground_truth_duration
    /\ config0.question_path = None
    /\ config0.timelag.question_path # None
    /\ config0.duration.question_path = None
    /\ pc = "failed"
    /\ Last(calls) = Call("load_qst_duration", FALSE, <<>>)
    /\ Succeeded("predict_timelag")

\* C8 as stated: load_qst returns pitch_indices = [n, n+1, n+2] and a
\* pitch_idx that is the first of them.
C8_PitchIdxIsFirst ==
    \A typ \in Stages :
        qst[typ].loaded =>
            /\ qst[typ].pitch_indices =
                  <<qst[typ].len_binary, qst[typ].len_binary + 1, qst[typ].len_binary + 2>>
            /\ qst[typ].pitch_idx = qst[typ].pitch_indices[1]

\* C8 amended: load_qst returns pitch_indices = [n, n+1, n+2] and
\* pitch_idx = n + 1, the second of them.
C8_PitchIdxIsSecond ==
    \A typ \in Stages :
        qst[typ].loaded =>
            /\ qst[typ].pitch_indices =
                  <<qst[typ].len_binary, qst[typ].len_binary + 1, qst[typ].len_binary + 2>>
            /\ qst[typ].pitch_idx = qst[typ].pitch_indices[2]
            /\ qst[typ].pitch_idx = qst[typ].len_binary + 1

\* C8 witness: the acoustic question set, with two binary features, is loaded.
C8_Witness ==
    /\ qst["acoustic"].loaded
    /\ qst["acoustic"].len_binary = 2
    /\ qst["acoustic"].pitch_idx = 3

\* C9 as stated: the stages run once each in the order label loading, timing
\* resolution, acoustic prediction, waveform generation, bit-depth
\* normalization, artifact writing, and a failed stage is the last to run.
C9_NormalizeBeforeArtifacts ==
    /\ IsPrefix(StagesRun,
                <<"load_labels">> \o TimingStages
                   \o <<"predict_acoustic", "gen_waveform", "bit_depth", "write_timing",
                        "write_f0", "write_mgc", "write_bap", "write_wav">>)
    /\ FailureIsLast

\* C9 amended: the stages run once each in the order label loading, timing
\* resolution, acoustic prediction, waveform generation, the writing of the
\* timing, .f0, .mgc and .bap files, bit-depth normalization, the writing of
\* the audio file, and a failed stage is the last to run.
C9_StageOrder ==
    /\ IsPrefix(StagesRun,
                <<"load_labels">> \o TimingStages
                   \o <<"predict_acoustic", "gen_waveform", "write_timing", "write_f0",
                        "write_mgc", "write_bap", "bit_depth", "write_wav">>)
    /\ FailureIsLast

\* C9 witness: a run with predicted timing has completed.
C9_Witness ==
    /\ pc = "done"
    /\ ~config0.ground_truth_duration
    /\ Len(StagesRun) = 12

\* C10: the files present are those of a prefix of the order timing file,
\* .f0, .mgc, .bap, audio file; the audio file is present only after the four
\* auxiliary writes succeeded; and a file once written is never removed.
C10_WrittenFilesArePrefix ==
    /\ [](/\ \E k \in 0..5 : DOMAIN fs = { WriteOrder[i] : i \in 1..k }
          /\ (\E p \in DOMAIN fs : fs[p].kind = "wav") =>
                \A fn \in {"write_timing", "write_f0", "write_mgc", "write_bap"} :
                    Succeeded(fn))
    /\ [][DOMAIN fs \subseteq DOMAIN fs']_vars

\* C10 witness: a run has failed writing the .mgc file, leaving the timing and
\* .f0 files it had written.
C10_Witness ==
    /\ pc = "failed"
    /\ Last(calls).fn = "write_mgc"
    /\ Cardinality(DOMAIN fs) = 2
    /\ Succeeded("write_f0")

=============================================================================
